---- MODULE Spec2Model ----
(***************************************************************************)
(* The two batch jobs of the repository:                                   *)
(*   1_data_analysis.py  five analysis routines over the survey table,     *)
(*                       run in order by the __main__ block;               *)
(*   2_figure.py         six figure routines, run in order by __main__.    *)
(* A run is one process: an exception that no routine catches ends it.     *)
(***************************************************************************)
EXTENDS Integers, Sequences, FiniteSets, TLC

\* Rows of a table in which one column varies.
MaxRows == 3
\* Rows of a table in which two columns vary together.
MaxPairRows == 2

VARIABLES job, df, unwritable, pc, pair, locals, stdout, files, exc

vars == <<job, df, unwritable, pc, pair, locals, stdout, files, exc>>

----------------------------------------------------------------------------
(* Cells of a DataFrame.  A cell is a number n/d (d = 1 for an integer, 10 *)
(* for one decimal), a text, or NaN (missing).                             *)

Num(k) == [kind |-> "num", n |-> k, d |-> 1, s |-> ""]
Dec(k) == [kind |-> "num", n |-> k, d |-> 10, s |-> ""]
Str(t) == [kind |-> "str", n |-> 0, d |-> 1, s |-> t]
NaN == [kind |-> "nan", n |-> 0, d |-> 1, s |-> ""]

isna(c) == c.kind = "nan"
\* x == 1 on a cell: a number equal to one; a text or NaN never is.
EqNum(c, k) == c.kind = "num" /\ c.n = k * c.d
EqStr(c, t) == c.kind = "str" /\ c.s = t

----------------------------------------------------------------------------
(* Column labels, as the routines spell them.                              *)

StatusCol == "Status"
GenderCol == "Gender"
duration_col == "Working Hours/ Study Hours"
floor_col == "Floor"

\* analyze_perception: label -> column, in dict order.
stressors == << <<"Stuffy Air", "Environment [Stuffy \"bad\" air]">>,
                <<"High Temp", "Environment [Room temperature too high]">>,
                <<"Noise", "Environment [Noise]">> >>

matrix_symptoms == <<"Symptoms [Fatigue]", "Symptoms [Headache]",
                     "Symptoms [Difficulties concentrating]">>

conditions == <<"Condition [Do you have too much work to do?]",
                "Condition [Do you regard your work as interesting and stimulating?]",
                "Condition [Do you have any opportunity to influence your working conditions?]">>

symptoms == <<"Symptoms [Suffering from stress]", "Symptoms [Fatigue]",
              "Symptoms [Difficulties concentrating]">>

Range(f) == {f[x] : x \in DOMAIN f}

\* The trailing columns of the survey file, which analyze_sensors reads by
\* position: PM2.5 is the sixth from the end, CO2 the fourth, TVOC the second.
TailCols == <<"tail-6", "tail-5", "tail-4", "tail-3", "tail-2", "tail-1">>

\* The header of the survey file, left to right.
ColumnOrder ==
    <<StatusCol, GenderCol, duration_col>>
    \o [k \in 1..Len(stressors) |-> stressors[k][2]]
    \o <<floor_col>> \o matrix_symptoms \o conditions \o <<symptoms[1]>>
    \o TailCols

AllColumns == Range(ColumnOrder)

----------------------------------------------------------------------------
(* The survey table.  It is loaded once and never written.  A table is     *)
(* kept sparsely: `focus` lists the columns whose cells are given row by   *)
(* row in `cells`; every other column holds its usual value in every row.  *)

Usual(c) ==
    CASE c = StatusCol -> Str("Staff")
      [] c = GenderCol -> Str("Female")
      [] c = duration_col -> Str("2 - 4 hours")
      [] c = floor_col -> Str("Ground")
      [] c \in Range(conditions) -> Str("Yes")
      [] c \in Range(TailCols) -> Num(400)
      [] OTHER -> Num(1)

\* The values a column of the survey can hold.
Alphabet(c) ==
    CASE c = StatusCol -> {Str("Staff"), Str("Student"), NaN}
      [] c = GenderCol -> {Str("Female"), Str("Male"), NaN}
      [] c = duration_col ->
            {Str("1 - 2 hours"), Str("2 - 4 hours"), Str("> 4"), Str("< 1 hour"), NaN}
      [] c = floor_col -> {Str("Ground"), Str("1st"), NaN}
      [] c \in Range(conditions) -> {Str("Yes"), Str("No"), Str("Sometimes"), NaN}
      [] c \in Range(TailCols) -> {Num(400), Num(1500), Dec(1), NaN}
      [] c \in {stressors[k][2] : k \in 1..Len(stressors)} ->
            {Num(0), Num(1), Num(2), Num(3), Str("Yes"), Str("No"), NaN}
      [] OTHER -> {Num(1), Num(0), Str("Yes"), Str("No"), NaN}

Table(n, cols, focus, cells) ==
    [nrows |-> n, columns |-> cols, focus |-> focus, cells |-> cells]

NoTable == Table(0, {}, <<>>, <<>>)

Cell(t, c, r) ==
    IF \E k \in 1..Len(t.focus) : t.focus[k] = c
    THEN t.cells[r][CHOOSE k \in 1..Len(t.focus) : t.focus[k] = c]
    ELSE Usual(c)

\* df[c] as the sequence of its cells; the caller has checked c is a column.
Column(t, c) == [r \in 1..t.nrows |-> Cell(t, c, r)]

\* df.iloc[:, -k]: the k-th column from the end of the header.
Width(t) == Cardinality(t.columns)
Header(t) == SelectSeq(ColumnOrder, LAMBDA c : c \in t.columns)
iloc(t, k) == Column(t, Header(t)[Width(t) - k + 1])

\* pd.read_csv gives a column one dtype: cells that are all numbers
\* (float64, NaN the missing ones) or all strings (object), never a mix.
read_csv(col) ==
    \/ \A r \in DOMAIN col : col[r].kind # "str"
    \/ \A r \in DOMAIN col : col[r].kind # "num"

\* The tables tried: those in which one column of `singles` or one pair of
\* `pairs` varies, and those that lack one column of `lacking`.
TablesOver(singles, pairs, lacking) ==
    UNION { { Table(n, AllColumns, <<c>>, cells) :
                cells \in {x \in [1..n -> {<<v>> : v \in Alphabet(c)}] :
                              read_csv([r \in 1..n |-> x[r][1]])} } :
            n \in 0..MaxRows, c \in singles }
    \cup
    UNION { { Table(n, AllColumns, f, cells) :
                cells \in {x \in [1..n -> {<<v, w>> : v \in Alphabet(f[1]), w \in Alphabet(f[2])}] :
                              /\ read_csv([r \in 1..n |-> x[r][1]])
                              /\ read_csv([r \in 1..n |-> x[r][2]])} } :
            n \in 0..MaxPairRows, f \in pairs }
    \cup
    { Table(n, AllColumns \ {c}, <<>>, [r \in 1..n |-> <<>>]) :
            n \in 0..MaxPairRows, c \in lacking }

SensorFocus == {"tail-6", "tail-4", "tail-2"}
SingleFocus ==
    {StatusCol, GenderCol, duration_col} \cup SensorFocus
    \cup {stressors[k][2] : k \in 1..Len(stressors)}
MatrixFocus == {<<floor_col, s>> : s \in Range(matrix_symptoms)}
CorrelationFocus == {<<conditions[k], symptoms[k]>> : k \in 1..Len(conditions)}


----------------------------------------------------------------------------
(* Percentages.  value_counts(normalize=True) * 100 gives each category    *)
(* 100 * count / total; a percentage is kept as the fraction num / den.    *)

Pct(a, b) == [num |-> 100 * a, den |-> b]
\* The integer 0 that Series.get falls back to.
Zero == [num |-> 0, den |-> 1]
PctAdd(a, b) == [num |-> a.num * b.den + b.num * a.den, den |-> a.den * b.den]
PctEq(a, b) == a.num * b.den = b.num * a.den

\* Series.value_counts(normalize=True) * 100: missing cells are left out of
\* the counts and of the total.
value_counts(col) ==
    LET present == {r \in DOMAIN col : ~isna(col[r])}
        keys == {col[r] : r \in present}
    IN  [k \in keys |-> Pct(Cardinality({r \in present : col[r] = k}),
                            Cardinality(present))]

\* Series.get(key, 0), looked up by label.  (An all-text index makes older
\* pandas read an integer key as a position; that reading is not modelled.)
Series_get(counts, key) == IF key \in DOMAIN counts THEN counts[key] ELSE Zero

\* df.groupby(floor_col)[symptom].apply(lambda x: (x == 1).mean() * 100):
\* one group per floor value that is not missing; the mean runs over every
\* row of the group.
groupby_apply(floor, x) ==
    LET groups == {floor[r] : r \in {q \in DOMAIN floor : ~isna(floor[q])}}
    IN  [g \in groups |->
            LET rows == {r \in DOMAIN floor : floor[r] = g}
            IN  Pct(Cardinality({r \in rows : EqNum(x[r], 1)}), Cardinality(rows))]

----------------------------------------------------------------------------
(* The cleaning of analyze_correlations.                                   *)

\* Series.map({'Yes': 1, 'No': 0}): a value that is no key of the dict maps
\* to NaN.
map_dict(c) ==
    IF EqStr(c, "Yes") THEN Num(1) ELSE IF EqStr(c, "No") THEN Num(0) ELSE NaN

\* pd.to_numeric(..., errors='coerce'): numbers and NaN stay, the rest is NaN.
to_numeric(c) == IF c.kind = "num" THEN c ELSE NaN

fillna(c, k) == IF isna(c) THEN Num(k) ELSE c

\* pd.to_numeric(col.map({'Yes': 1, 'No': 0}), errors='coerce').fillna(0)
convert(col) == [r \in DOMAIN col |-> fillna(to_numeric(map_dict(col[r])), 0)]

\* df[[cond, symp]].dropna(): the rows with both cells present, in order.
dropna(c, s) ==
    SelectSeq([r \in DOMAIN c |-> <<c[r], s[r]>>],
              LAMBDA row : ~isna(row[1]) /\ ~isna(row[2]))

----------------------------------------------------------------------------
(* scipy.stats.pearsonr on two sequences of integers.  It raises           *)
(* ValueError under two observations, returns (nan, nan) for a constant    *)
(* input, and otherwise r and the two-sided p-value.  r is kept in         *)
(* hundredths, as the report prints it; p is kept in ten-thousandths and   *)
(* is the library's, given here as pv.                                     *)

RECURSIVE SumSeq(_)
SumSeq(q) == IF q = <<>> THEN 0 ELSE q[1] + SumSeq(Tail(q))

Undefined == [def |-> FALSE, v |-> 0]
Defined(x) == [def |-> TRUE, v |-> x]

pearsonr(x, y, pv) ==
    LET n == Len(x)
        sx == SumSeq(x)
        sy == SumSeq(y)
        sxy == SumSeq([r \in 1..n |-> x[r] * y[r]])
        dx == n * SumSeq([r \in 1..n |-> x[r] * x[r]]) - sx * sx
        dy == n * SumSeq([r \in 1..n |-> y[r] * y[r]]) - sy * sy
        cov == n * sxy - sx * sy
        mag == Cardinality({k \in 1..100 :
                    (2 * k - 1) * (2 * k - 1) * dx * dy <= 40000 * cov * cov})
    IN  IF n < 2
        THEN [error |-> "ValueError", r |-> Undefined, p |-> Undefined]
        ELSE IF dx = 0 \/ dy = 0
        THEN [error |-> "none", r |-> Undefined, p |-> Undefined]
        ELSE [error |-> "none",
              r |-> Defined(IF cov < 0 THEN -mag ELSE mag),
              p |-> Defined(pv)]

\* The p-values the library is taken to return: both thresholds, their
\* neighbours and the ends, in ten-thousandths.
PValues == {0, 99, 100, 101, 499, 500, 501, 10000}

\* The marker with both comparisons made inclusive.
significance_inclusive(p) ==
    IF p.def /\ p.v <= 100 THEN "**"
    ELSE IF p.def /\ p.v <= 500 THEN "*"
    ELSE ""

\* sig = "**" if p_val < 0.01 else "*" if p_val < 0.05 else ""
\* (a comparison with nan is false).
significance(p) ==
    IF p.def /\ p.v < 100 THEN "**"
    ELSE IF p.def /\ p.v < 500 THEN "*"
    ELSE ""

----------------------------------------------------------------------------
(* float64, for the sensor columns.  A finite value that is not negative   *)
(* is m * 2^e with m a significand of float64_bits bits, most significant  *)
(* first and leading with 1; zero has the empty significand.  Results are  *)
(* rounded to nearest, ties to even, as IEEE 754 arithmetic does.          *)

float64_bits == 53

Zeros(k) == [x \in 1..k |-> 0]

RECURSIVE Bits(_)
Bits(k) == IF k = 0 THEN <<>> ELSE Bits(k \div 2) \o <<k % 2>>

\* b without its leading zeros.
Strip(b) ==
    IF \A q \in DOMAIN b : b[q] = 0 THEN <<>>
    ELSE SubSeq(b, CHOOSE q \in DOMAIN b : b[q] = 1 /\ \A p \in 1..(q - 1) : b[p] = 0,
                Len(b))

\* Bit i of b counted from its low end, i = 0 the lowest.
BitAt(b, i) == IF i < Len(b) THEN b[Len(b) - i] ELSE 0

\* a + b + carry for bit strings of one length, the carry out in front;
\* the low halves are added first and their carry goes into the high ones.
RECURSIVE AddHalves(_, _, _)
AddHalves(a, b, carry) ==
    IF Len(a) = 1
    THEN LET t == a[1] + b[1] + carry IN <<t \div 2, t % 2>>
    ELSE LET h == Len(a) \div 2
             low == AddHalves(SubSeq(a, h + 1, Len(a)), SubSeq(b, h + 1, Len(b)), carry)
         IN  IF low[1] = 1
             THEN AddHalves(SubSeq(a, 1, h), SubSeq(b, 1, h), 1) \o Tail(low)
             ELSE AddHalves(SubSeq(a, 1, h), SubSeq(b, 1, h), 0) \o Tail(low)

AddBits(a, b) ==
    LET n == IF Len(a) < Len(b) THEN Len(b) ELSE Len(a)
    IN  Strip(AddHalves(Zeros(n - Len(a)) \o a, Zeros(n - Len(b)) \o b, 0))

FNaN == [nan |-> TRUE, m |-> <<>>, e |-> 0]
FZero == [nan |-> FALSE, m |-> <<>>, e |-> 0]

\* The float64 nearest to b * 2^e, b a bit string without leading zeros;
\* sticky says that a nonzero part below b was cut off already.
Round(b, e, sticky) ==
    LET P == float64_bits
        L == Len(b)
    IN  IF b = <<>> THEN FZero
        ELSE IF L <= P
        THEN [nan |-> FALSE, m |-> b \o Zeros(P - L), e |-> e - (P - L)]
        ELSE LET keep == SubSeq(b, 1, P)
                 rest == sticky \/ \E q \in (P + 2)..L : b[q] = 1
                 up == b[P + 1] = 1 /\ (rest \/ keep[P] = 1)
                 inc == AddBits(keep, <<1>>)
             IN  IF ~up THEN [nan |-> FALSE, m |-> keep, e |-> e + (L - P)]
                 ELSE IF Len(inc) = P
                 THEN [nan |-> FALSE, m |-> inc, e |-> e + (L - P)]
                 ELSE [nan |-> FALSE, m |-> SubSeq(inc, 1, P), e |-> e + (L - P) + 1]

FromInt(k) == Round(Bits(k), 0, FALSE)

\* x + y.
FAdd(x, y) ==
    IF x.m = <<>> THEN y
    ELSE IF y.m = <<>> THEN x
    ELSE LET e0 == IF x.e < y.e THEN x.e ELSE y.e
         IN  Round(AddBits(x.m \o Zeros(x.e - e0), y.m \o Zeros(y.e - e0)),
                   e0, FALSE)

\* Long division of a bit string by k, rem the remainder brought in from
\* the bits before it: the quotient's bits and the remainder.  The high
\* half is divided first and its remainder goes into the low one.
RECURSIVE DivHalves(_, _, _)
DivHalves(b, k, rem) ==
    IF Len(b) = 1
    THEN LET t == 2 * rem + b[1] IN [quot |-> <<t \div k>>, rem |-> t % k]
    ELSE LET h == Len(b) \div 2
             high == DivHalves(SubSeq(b, 1, h), k, rem)
             low == DivHalves(SubSeq(b, h + 1, Len(b)), k, high.rem)
         IN  [quot |-> high.quot \o low.quot, rem |-> low.rem]

\* x / k for an integer k >= 1 (k below 2^8), rounded once.
FDiv(x, k) ==
    IF x.m = <<>> THEN x
    ELSE LET d == DivHalves(x.m \o Zeros(8), k, 0)
         IN  Round(Strip(d.quot), x.e - 8, d.rem # 0)

\* a <= b on significands of the same length.
BitsLeq(a, b) ==
    \A q \in DOMAIN a : (a[q] > b[q]) => \E p \in 1..(q - 1) : a[p] < b[p]

\* x <= y on values that are not NaN.
FLeq(x, y) ==
    IF x.m = <<>> THEN TRUE
    ELSE IF y.m = <<>> THEN FALSE
    ELSE IF x.e # y.e THEN x.e < y.e
    ELSE BitsLeq(x.m, y.m)

\* The float64 a numeric cell is read as: the value nearest to n / d.
float64_of == [c \in Alphabet(TailCols[1]) \ {NaN} |-> FDiv(FromInt(c.n), c.d)] @@ <<>>
float64(c) == float64_of[c]

\* Series.min(), .max(), .mean(), each skipping the missing cells (skipna);
\* NaN when nothing is left.  The mean is the running sum, in row order,
\* divided by the count.
values(col) ==
    LET kept == SelectSeq(col, LAMBDA c : ~isna(c))
    IN  [r \in 1..Len(kept) |-> float64(kept[r])]

RECURSIVE FSum(_)
FSum(v) ==
    IF v = <<>> THEN FZero ELSE FAdd(FSum(SubSeq(v, 1, Len(v) - 1)), v[Len(v)])

Series_min(col) ==
    LET v == values(col)
    IN  IF v = <<>> THEN FNaN
        ELSE v[CHOOSE r \in 1..Len(v) : \A q \in 1..Len(v) : FLeq(v[r], v[q])]

Series_max(col) ==
    LET v == values(col)
    IN  IF v = <<>> THEN FNaN
        ELSE v[CHOOSE r \in 1..Len(v) : \A q \in 1..Len(v) : FLeq(v[q], v[r])]

\* The mean over every row, the missing ones counted.
Series_mean_all_rows(col) ==
    LET v == values(col)
    IN  IF v = <<>> THEN FNaN ELSE FDiv(FSum(v), Len(col))

Series_mean(col) ==
    LET v == values(col)
    IN  IF v = <<>> THEN FNaN ELSE FDiv(FSum(v), Len(v))

----------------------------------------------------------------------------
(* The state.                                                              *)
(*   job         the script the process runs                               *)
(*   df          the survey table (survey_data, and clean_df its copy)     *)
(*   unwritable  the figure files the file system refuses to write         *)
(*   pc          the statement of __main__ the process is at               *)
(*   pair        the iteration of analyze_correlations' loop               *)
(*   locals      the local variables of the loop body of that routine      *)
(*   stdout      what has been printed, in order                           *)
(*   files       the image files written, in order                         *)
(*   exc         the exception that ended the process, if one did          *)

StatisticsJob == "1_data_analysis.py"
FigureJob == "2_figure.py"

NoExc == [type |-> "none", routine |-> ""]
Raised(type, routine) == [type |-> type, routine |-> routine]

NoLocals == [subset |-> <<>>, c_val |-> <<>>, s_val |-> <<>>,
             r_val |-> Undefined, p_val |-> Undefined, sig |-> ""]

\* print(text) and print(pd.DataFrame(...)).
Line(text) == [tag |-> "line", text |-> text, body |-> <<>>]
Frame(name, body) == [tag |-> "frame", text |-> name, body |-> body]

\* The six figures: routine, and the file its savefig call names.
FigureRoutines == <<"create_figure_1", "create_figure_2", "create_figure_3",
                    "create_figure_4", "create_figure_5", "create_figure_6">>

\* The names with figure 3 saved under figure 2's.
savefig_name_copied(k) ==
    CASE k = 1 -> "figure_1_latency_analysis.png"
      [] k = 2 -> "figure_2_symptom_heatmap.png"
      [] k = 3 -> "figure_2_symptom_heatmap.png"
      [] k = 4 -> "figure_4_smote_effect.png"
      [] k = 5 -> "figure_5_feature_importance.png"
      [] k = 6 -> "figure_6_governance_framework.png"

savefig_name(k) ==
    CASE k = 1 -> "figure_1_latency_analysis.png"
      [] k = 2 -> "figure_2_symptom_heatmap.png"
      [] k = 3 -> "figure_3_radar_perception.png"
      [] k = 4 -> "figure_4_smote_effect.png"
      [] k = 5 -> "figure_5_feature_importance.png"
      [] k = 6 -> "figure_6_governance_framework.png"

FigureFiles == {savefig_name(k) : k \in 1..Len(FigureRoutines)}

\* A run of one of `jobs`, the statistics job on one of `tables`.
InitOver(jobs, tables) ==
    /\ job \in jobs
    /\ IF job = StatisticsJob
       THEN df \in tables /\ unwritable = {}
       ELSE df = NoTable /\ unwritable \in SUBSET FigureFiles
    /\ pc = "main"
    /\ pair = 0
    /\ locals = NoLocals
    /\ stdout = <<>>
    /\ files = <<>>
    /\ exc = NoExc

Init ==
    InitOver({StatisticsJob, FigureJob},
             TablesOver(SingleFocus, MatrixFocus \cup CorrelationFocus,
                        AllColumns \ Range(TailCols)))

\* An exception nobody catches: the interpreter prints the traceback to
\* stderr and the process ends; nothing after the raising statement runs.
Abort(type, routine) ==
    /\ pc' = "aborted"
    /\ exc' = Raised(type, routine)

----------------------------------------------------------------------------
(* 1_data_analysis.py                                                      *)

\* __main__: the two title lines and clean_df = survey_data.copy().
main_start ==
    /\ job = StatisticsJob /\ pc = "main"
    /\ stdout' = stdout \o <<Line("RESEARCH ANALYSIS: PUBLIC ADMIN JOURNAL"),
                             Line("================================================================")>>
    /\ pc' = "analyze_demographics"
    /\ UNCHANGED <<job, df, unwritable, pair, locals, files, exc>>

\* analyze_demographics(df).  The three columns are read before anything is
\* printed.  duration_mapping is built and never applied; duration_dist is
\* computed and never printed.
duration_mapping ==
    [raw \in {"1 - 2 hours", "2 - 4 hours", "> 4"} |->
        CASE raw = "1 - 2 hours" -> "< 2 Hours"
          [] raw = "2 - 4 hours" -> "2 - 4 Hours"
          [] raw = "> 4" -> "> 4 Hours"]

demographics_output(t) ==
    LET status_counts == value_counts(Column(t, StatusCol))
        gender_counts == value_counts(Column(t, GenderCol))
        duration_dist == value_counts(Column(t, duration_col))
    IN  <<Line("--- Table 1: Socio-Demographics Analysis ---"),
          Frame("status_counts", status_counts),
          Frame("gender_counts", gender_counts),
          Line("")>>

analyze_demographics ==
    /\ job = StatisticsJob /\ pc = "analyze_demographics"
    /\ IF {StatusCol, GenderCol, duration_col} \subseteq df.columns
       THEN /\ stdout' = stdout \o demographics_output(df)
            /\ pc' = "analyze_perception"
            /\ exc' = exc
       ELSE /\ Abort("KeyError", "analyze_demographics")
            /\ stdout' = stdout
    /\ UNCHANGED <<job, df, unwritable, pair, locals, files>>

\* analyze_perception(df): one row per stressor, printed after the loop.
perception_row(t, k) ==
    LET counts == value_counts(Column(t, stressors[k][2]))
    IN  [Stressor |-> stressors[k][1],
         Often |-> PctAdd(Series_get(counts, Num(1)), Series_get(counts, Str("Yes"))),
         Sometimes |-> Series_get(counts, Num(2)),
         Rarely |-> PctAdd(Series_get(counts, Num(0)), Series_get(counts, Str("No")))]

perception_output(t) ==
    <<Line("--- Table 2: Environmental Perception ---"),
      Frame("results", [k \in 1..Len(stressors) |-> perception_row(t, k)]),
      Line("")>>

analyze_perception ==
    /\ job = StatisticsJob /\ pc = "analyze_perception"
    /\ IF \A k \in 1..Len(stressors) : stressors[k][2] \in df.columns
       THEN /\ stdout' = stdout \o perception_output(df)
            /\ pc' = "analyze_symptoms_matrix"
            /\ exc' = exc
       ELSE /\ Abort("KeyError", "analyze_perception")
            /\ stdout' = stdout
    /\ UNCHANGED <<job, df, unwritable, pair, locals, files>>

\* analyze_symptoms_matrix(df): one column of percentages per symptom,
\* printed after the loop.
symptoms_matrix(t) ==
    [k \in 1..Len(matrix_symptoms) |->
        groupby_apply(Column(t, floor_col), Column(t, matrix_symptoms[k]))]

analyze_symptoms_matrix ==
    /\ job = StatisticsJob /\ pc = "analyze_symptoms_matrix"
    /\ IF floor_col \in df.columns /\ Range(matrix_symptoms) \subseteq df.columns
       THEN /\ stdout' = stdout \o
                    <<Line("--- Table 3: Symptoms Matrix (%) by Floor ---"),
                      Frame("matrix", symptoms_matrix(df)),
                      Line("")>>
            /\ pc' = "analyze_correlations"
            /\ exc' = exc
       ELSE /\ Abort("KeyError", "analyze_symptoms_matrix")
            /\ stdout' = stdout
    /\ UNCHANGED <<job, df, unwritable, pair, locals, files>>

\* analyze_correlations(df): the header, then the nine pairs.
analyze_correlations ==
    /\ job = StatisticsJob /\ pc = "analyze_correlations"
    /\ stdout' = stdout \o <<Line("--- Table 4: Correlation Coefficient (r) Matrix ---")>>
    /\ pair' = 1
    /\ pc' = "correlation_pair"
    /\ UNCHANGED <<job, df, unwritable, locals, files, exc>>

NPairs == Len(conditions) * Len(symptoms)
cond_of(k) == conditions[((k - 1) \div Len(symptoms)) + 1]
symp_of(k) == symptoms[((k - 1) % Len(symptoms)) + 1]

\* The cleaning of one pair: the rows kept and the two sequences handed to
\* pearsonr.
cleaned(t, k) ==
    LET subset == dropna(Column(t, cond_of(k)), Column(t, symp_of(k)))
    IN  [subset |-> subset,
         c_val |-> convert([r \in DOMAIN subset |-> subset[r][1]]),
         s_val |-> convert([r \in DOMAIN subset |-> subset[r][2]])]

\* One iteration of the loop body: clean, correlate, print the line
\* f"{cond[:15]} x {symp[:15]}: r={r_val:.2f}{sig}".
correlate(in, pv) ==
    pearsonr([r \in DOMAIN in.c_val |-> in.c_val[r].n],
             [r \in DOMAIN in.s_val |-> in.s_val[r].n], pv)

\* The p-values the library may return for an input: any, when it returns
\* a p-value at all.
p_values(in) == IF correlate(in, 0).p.def THEN PValues ELSE {0}

correlation_pair ==
    /\ job = StatisticsJob /\ pc = "correlation_pair" /\ pair <= NPairs
    /\ IF ~({cond_of(pair), symp_of(pair)} \subseteq df.columns)
       THEN /\ Abort("KeyError", "analyze_correlations")
            /\ UNCHANGED <<pair, locals, stdout>>
       ELSE LET in == cleaned(df, pair)
            IN  \E pv \in p_values(in) :
                LET res == correlate(in, pv)
                IN  IF res.error # "none"
                    THEN /\ Abort(res.error, "analyze_correlations")
                         /\ locals' = [NoLocals EXCEPT !.subset = in.subset,
                                           !.c_val = in.c_val, !.s_val = in.s_val]
                         /\ UNCHANGED <<pair, stdout>>
                    ELSE /\ locals' = [subset |-> in.subset, c_val |-> in.c_val,
                                       s_val |-> in.s_val, r_val |-> res.r,
                                       p_val |-> res.p, sig |-> significance(res.p)]
                         /\ stdout' = Append(stdout,
                                [tag |-> "r", text |-> significance(res.p),
                                 body |-> <<cond_of(pair), symp_of(pair), res.r>>])
                         /\ pair' = pair + 1
                         /\ UNCHANGED <<pc, exc>>
    /\ UNCHANGED <<job, df, unwritable, files>>

\* The end of analyze_correlations: print("\n") and return.
correlations_return ==
    /\ job = StatisticsJob /\ pc = "correlation_pair" /\ pair > NPairs
    /\ stdout' = Append(stdout, Line(""))
    /\ pc' = "analyze_sensors"
    /\ pair' = 0
    /\ locals' = NoLocals
    /\ UNCHANGED <<job, df, unwritable, files, exc>>

\* analyze_sensors(df): CO2, PM2.5 and TVOC by position from the end.
metrics == << <<"CO2 (ppm)", 4>>, <<"PM2.5 (ug/m3)", 6>>, <<"TVOC (ppb)", 2>> >>

summary(col) == [Min |-> Series_min(col), Max |-> Series_max(col),
                 Mean |-> Series_mean(col)]

\* The summaries of the columns a table can hold at those positions,
\* worked out once (@@ makes the table explicit).
summaries ==
    [col \in UNION {[1..n -> Alphabet(TailCols[1])] : n \in 0..MaxRows} |-> summary(col)]
    @@ <<>>

sensor_summary(t) == [k \in 1..Len(metrics) |-> summaries[iloc(t, metrics[k][2])]]

analyze_sensors ==
    /\ job = StatisticsJob /\ pc = "analyze_sensors"
    /\ IF \A k \in 1..Len(metrics) : metrics[k][2] <= Width(df)
       THEN /\ stdout' = stdout \o
                    <<Line("--- Table 5: Sensor Analysis (Min, Max, Mean) ---"),
                      Frame("sensor_summary", sensor_summary(df)),
                      Line("")>>
            /\ pc' = "note"
            /\ exc' = exc
       ELSE /\ Abort("IndexError", "analyze_sensors")
            /\ stdout' = stdout
    /\ UNCHANGED <<job, df, unwritable, pair, locals, files>>

\* __main__: the closing note.
main_note ==
    /\ job = StatisticsJob /\ pc = "note"
    /\ stdout' = stdout \o
            <<Line("Note: Technical performance metrics (Table 6-8) are derived from the "),
              Line("TinyML model deployment logs and hardware profiling on the MCU.")>>
    /\ pc' = "done"
    /\ UNCHANGED <<job, df, unwritable, pair, locals, files, exc>>

----------------------------------------------------------------------------
(* 2_figure.py                                                             *)

figure_start ==
    /\ job = FigureJob /\ pc = "main"
    /\ stdout' = Append(stdout, Line("Generating Figures for Journal Submission..."))
    /\ pc' = FigureRoutines[1]
    /\ UNCHANGED <<job, df, unwritable, pair, locals, files, exc>>

\* create_figure_k(): draw, plt.savefig(name), plt.close().  savefig raises
\* OSError when the file cannot be written.
create_figure(k) ==
    /\ job = FigureJob /\ pc = FigureRoutines[k]
    /\ IF savefig_name(k) \in unwritable
       THEN /\ Abort("OSError", FigureRoutines[k])
            /\ files' = files
       ELSE /\ files' = Append(files, [routine |-> FigureRoutines[k],
                                       name |-> savefig_name(k)])
            /\ pc' = IF k < Len(FigureRoutines) THEN FigureRoutines[k + 1] ELSE "saved"
            /\ exc' = exc
    /\ UNCHANGED <<job, df, unwritable, pair, locals, stdout>>

create_figure_1 == create_figure(1)
create_figure_2 == create_figure(2)
create_figure_3 == create_figure(3)
create_figure_4 == create_figure(4)
create_figure_5 == create_figure(5)
create_figure_6 == create_figure(6)

figure_done ==
    /\ job = FigureJob /\ pc = "saved"
    /\ stdout' = Append(stdout,
            Line("All figures successfully saved as PNG files with corrected formatting."))
    /\ pc' = "done"
    /\ UNCHANGED <<job, df, unwritable, pair, locals, files, exc>>

----------------------------------------------------------------------------

\* python 1_data_analysis.py
NextStatistics ==
    \/ main_start
    \/ analyze_demographics
    \/ analyze_perception
    \/ analyze_symptoms_matrix
    \/ analyze_correlations
    \/ correlation_pair
    \/ correlations_return
    \/ analyze_sensors
    \/ main_note

\* python 2_figure.py
NextFigure ==
    \/ figure_start
    \/ create_figure_1
    \/ create_figure_2
    \/ create_figure_3
    \/ create_figure_4
    \/ create_figure_5
    \/ create_figure_6
    \/ figure_done

Next ==
    \/ NextStatistics
    \/ NextFigure

Spec == Init /\ [][Next]_vars

\* The figure job alone, over every set of files that cannot be written.
FigureInit == InitOver({FigureJob}, {})
FigureSpec == FigureInit /\ [][NextFigure]_vars

\* The statistics job on the tables whose sensor readings vary.
SensorInit == InitOver({StatisticsJob}, TablesOver(SensorFocus, {}, {}))
SensorSpec == SensorInit /\ [][NextStatistics]_vars

\* The statistics job on the tables whose correlated pairs vary.
CorrelationInit == InitOver({StatisticsJob}, TablesOver({}, CorrelationFocus, {}))
CorrelationSpec == CorrelationInit /\ [][NextStatistics]_vars

----------------------------------------------------------------------------
(* What the properties below read from a state.                            *)

HasFrame(name) ==
    \E k \in DOMAIN stdout : stdout[k].tag = "frame" /\ stdout[k].text = name
FrameBody(name) ==
    stdout[CHOOSE k \in DOMAIN stdout :
               stdout[k].tag = "frame" /\ stdout[k].text = name].body
HasLine(text) ==
    \E k \in DOMAIN stdout : stdout[k].tag = "line" /\ stdout[k].text = text

\* The routines of the statistics job and the header each prints.
AnalysisRoutines ==
    {"analyze_demographics", "analyze_perception", "analyze_symptoms_matrix",
     "analyze_correlations", "analyze_sensors"}
TableHeader(routine) ==
    CASE routine = "analyze_demographics" -> "--- Table 1: Socio-Demographics Analysis ---"
      [] routine = "analyze_perception" -> "--- Table 2: Environmental Perception ---"
      [] routine = "analyze_symptoms_matrix" -> "--- Table 3: Symptoms Matrix (%) by Floor ---"
      [] routine = "analyze_correlations" -> "--- Table 4: Correlation Coefficient (r) Matrix ---"
      [] routine = "analyze_sensors" -> "--- Table 5: Sensor Analysis (Min, Max, Mean) ---"

Hundred == [num |-> 100, den |-> 1]

RECURSIVE NumTotal(_, _)
NumTotal(f, keys) ==
    IF keys = {} THEN 0
    ELSE LET k == CHOOSE x \in keys : TRUE
         IN  f[k].num + NumTotal(f, keys \ {k})

\* A distribution whose categories all have the same denominator sums to 100.
SumsTo100(f) ==
    \A k \in DOMAIN f : NumTotal(f, DOMAIN f) = 100 * f[k].den

SomePresent(c) == \E r \in 1..df.nrows : ~isna(Cell(df, c, r))

----------------------------------------------------------------------------
\* C1: in the statistics job, a routine that fails does not stop the others:
\* when the run has ended on an exception of one routine, each of the other
\* four routines has printed its table.
C1_SiblingsStillRun ==
    (job = StatisticsJob /\ pc = "aborted") =>
        \A routine \in AnalysisRoutines \ {exc.routine} : HasLine(TableHeader(routine))

\* C2: every value handed to pearsonr is 1 for "Yes", 0 for "No", the value
\* itself when the cell is a number, and 0 only for a value that cannot be
\* converted.
Expected(c) ==
    IF EqStr(c, "Yes") THEN Num(1)
    ELSE IF EqStr(c, "No") THEN Num(0)
    ELSE IF c.kind = "num" THEN c
    ELSE Num(0)

C2_FedValues ==
    \A r \in DOMAIN locals.subset :
        /\ locals.c_val[r] = Expected(locals.subset[r][1])
        /\ locals.s_val[r] = Expected(locals.subset[r][2])

\* C3: a pair with fewer than two paired observations, or with a sequence of
\* zero variance, is reported as undefined: no error leaves the routine, and
\* the line printed for the pair carries neither a number nor a marker.
IsConstant(q) == \A r \in DOMAIN q : q[r] = q[1]
Degenerate(l) ==
    Len(l.c_val) < 2 \/ IsConstant(l.c_val) \/ IsConstant(l.s_val)

C3_DegenerateUndefined ==
    /\ ~(exc.routine = "analyze_correlations" /\ exc.type = "ValueError")
    /\ (job = StatisticsJob /\ pc = "correlation_pair" /\ pair > 1 /\ Degenerate(locals)) =>
            /\ ~locals.r_val.def
            /\ locals.sig = ""
            /\ stdout[Len(stdout)].tag = "r"
            /\ ~stdout[Len(stdout)].body[3].def
            /\ stdout[Len(stdout)].text = ""

\* C4: each cell of the symptoms matrix is 100 * (rows of the floor whose
\* symptom is 1) / (rows of the floor whose symptom is not missing).
C4_CellExcludesMissing ==
    HasFrame("matrix") =>
        \A k \in 1..Len(matrix_symptoms) :
            LET floor == Column(df, floor_col)
                x == Column(df, matrix_symptoms[k])
                cells == FrameBody("matrix")[k]
            IN  \A g \in DOMAIN cells :
                    LET answered == {r \in 1..df.nrows : floor[r] = g /\ ~isna(x[r])}
                    IN  answered # {} =>
                            PctEq(cells[g],
                                  Pct(Cardinality({r \in answered : EqNum(x[r], 1)}),
                                      Cardinality(answered)))

\* C5: with at least one value present in the column, the percentages of the
\* status distribution, of the gender distribution and of each stressor's
\* three outputs sum to 100.
C5_PercentagesSumTo100 ==
    /\ HasFrame("status_counts") =>
            (SomePresent(StatusCol) => SumsTo100(FrameBody("status_counts")))
    /\ HasFrame("gender_counts") =>
            (SomePresent(GenderCol) => SumsTo100(FrameBody("gender_counts")))
    /\ HasFrame("results") =>
            \A k \in 1..Len(stressors) :
                LET row == FrameBody("results")[k]
                IN  SomePresent(stressors[k][2]) =>
                        PctEq(PctAdd(PctAdd(row.Often, row.Sometimes), row.Rarely), Hundred)

\* C6: analyze_demographics also prints the distribution of the duration
\* column, every category one of the three canonical bins or a raw label
\* shown as unmapped.
C6_DurationEmitted ==
    HasLine(TableHeader("analyze_demographics")) => HasFrame("duration_dist")

\* C7: for a pair with a p-value, the marker printed is "**" exactly when
\* p < 0.01, "*" exactly when 0.01 <= p < 0.05, and empty otherwise.
AfterPair == job = StatisticsJob /\ pc = "correlation_pair" /\ pair > 1

C7_SignificanceMarker ==
    (AfterPair /\ locals.p_val.def) =>
        /\ stdout[Len(stdout)].tag = "r"
        /\ stdout[Len(stdout)].text = locals.sig
        /\ (locals.sig = "**") <=> (locals.p_val.v < 100)
        /\ (locals.sig = "*") <=> (100 <= locals.p_val.v /\ locals.p_val.v < 500)
        /\ (locals.sig = "") <=> (500 <= locals.p_val.v)

\* p exactly 0.01, printed with the weak marker.
C7_Witness ==
    /\ AfterPair
    /\ locals.p_val = Defined(100)
    /\ stdout[Len(stdout)].tag = "r"
    /\ stdout[Len(stdout)].text = "*"

\* C8: in the figure job, a figure that cannot be written does not stop the
\* others: when the run has ended on the exception of one routine, each of
\* the other five has written its file.
Written(name) == \E k \in DOMAIN files : files[k].name = name

C8_FiguresIsolated ==
    (job = FigureJob /\ pc = "aborted") =>
        \A k \in 1..Len(FigureRoutines) :
            FigureRoutines[k] # exc.routine => Written(savefig_name(k))

\* C9, as claimed: for each metric whose column has a value, the values
\* reported are the least, the greatest and the mean of the values present,
\* with min <= mean <= max, and all three equal for a single value.
Present(col) == SelectSeq(col, LAMBDA c : ~isna(c))
Extremes(col, row) ==
    LET v == values(col)
    IN  /\ \E r \in DOMAIN v : row.Min = v[r]
        /\ \E r \in DOMAIN v : row.Max = v[r]
        /\ \A r \in DOMAIN v : FLeq(row.Min, v[r]) /\ FLeq(v[r], row.Max)
Ordered(col, row) ==
    /\ FLeq(row.Min, row.Mean)
    /\ FLeq(row.Mean, row.Max)
    /\ Len(Present(col)) = 1 => (row.Min = row.Mean /\ row.Mean = row.Max)

Integral(col) == \A r \in DOMAIN col : col[r].kind = "num" => col[r].d = 1

SuccessLine == "All figures successfully saved as PNG files with corrected formatting."

C10_SixFilesOnceEach ==
    /\ \A a, b \in DOMAIN files :
            a # b => (files[a].name # files[b].name /\ files[a].routine # files[b].routine)
    /\ (job = FigureJob /\ pc = "done") =>
            /\ Len(files) = Len(FigureRoutines)
            /\ \A k \in DOMAIN files : files[k].routine = FigureRoutines[k]
    /\ HasLine(SuccessLine) =>
            \A k \in 1..Len(FigureRoutines) :
                \E a \in DOMAIN files : files[a].routine = FigureRoutines[k]

\* The figure job at its end, the six files on disk and the message printed.
C10_Witness ==
    /\ job = FigureJob /\ pc = "done"
    /\ Len(files) = 6
    /\ HasLine(SuccessLine)

====
